---------------------------- MODULE Spec2Model ----------------------------
(***************************************************************************)
(* Code journal: the REST server over the entries table (server.ts) and    *)
(* the EntryForm component of the client.                                  *)
(*                                                                         *)
(* Strings that the code inspects character by character (the :entryId     *)
(* path value) are sequences of one-character strings; strings the code    *)
(* only tests for truthiness and copies (title, notes, photoUrl) are TLA+  *)
(* strings.                                                                *)
(***************************************************************************)
EXTENDS Integers, Sequences, FiniteSets, TLC

(***************************************************************************)
(* Bounds of the model.                                                    *)
(***************************************************************************)
\* Largest entryId the store's sequence hands out.
MaxId == 2
\* Largest entryId of the runs that try every path value and body.
MaxIdWide == 1
\* Largest number of fetches one mounted form issues.
MaxFetches == 3

(***************************************************************************)
(* JavaScript values.                                                      *)
(***************************************************************************)
Undefined == "<undefined>"

\* !v for the values a JSON body field takes here: undefined and "" are falsy.
Falsy(v) == v = Undefined \/ v = ""

DigitChars == <<"0", "1", "2", "3", "4", "5", "6", "7", "8", "9">>

DigitValues ==
  [c \in {"0", "1", "2", "3", "4", "5", "6", "7", "8", "9"} |->
     (CHOOSE i \in 1..10 : DigitChars[i] = c) - 1]

IsDigit(c) == c \in DOMAIN DigitValues

DigitVal(c) == DigitValues[c]

AllDigits(s) == \A i \in 1..Len(s) : IsDigit(s[i])

\* The natural number a sequence of digit characters denotes (0 for <<>>).
RECURSIVE DigitsToNat(_)
DigitsToNat(s) ==
  IF s = <<>> THEN 0
  ELSE 10 * DigitsToNat(SubSeq(s, 1, Len(s) - 1)) + DigitVal(s[Len(s)])

\* A fraction's digits as numbers, trailing zeros dropped.
RECURSIVE StripZeros(_)
StripZeros(ds) ==
  IF ds = <<>> THEN <<>>
  ELSE IF ds[Len(ds)] = 0 THEN StripZeros(SubSeq(ds, 1, Len(ds) - 1))
  ELSE ds

FracDigits(s) == StripZeros(<<>> \o [i \in 1..Len(s) |-> DigitVal(s[i])])

NaN == [nan |-> TRUE, neg |-> FALSE, int |-> 0, frac |-> <<>>]

(***************************************************************************)
(* The decimal number a string denotes, exactly: StringToNumber's grammar  *)
(* StrDecimalLiteral without exponent (sign, digits, one optional point).  *)
(* frac holds the digits after the point.  Anything else denotes nothing   *)
(* (nan).  The empty string denotes 0.                                     *)
(***************************************************************************)
ExactDecimal(s) ==
  LET signed == s # <<>> /\ s[1] \in {"+", "-"}
      neg    == s # <<>> /\ s[1] = "-"
      body   == IF signed THEN Tail(s) ELSE s
      dots   == {i \in 1..Len(body) : body[i] = "."}
  IN IF s = <<>> THEN [nan |-> FALSE, neg |-> FALSE, int |-> 0, frac |-> <<>>]
     ELSE IF dots = {} THEN
       IF body # <<>> /\ AllDigits(body)
       THEN [nan |-> FALSE, neg |-> neg, int |-> DigitsToNat(body), frac |-> <<>>]
       ELSE NaN
     ELSE IF Cardinality(dots) = 1 THEN
       LET d     == CHOOSE i \in dots : TRUE
           intd  == SubSeq(body, 1, d - 1)
           fracd == SubSeq(body, d + 1, Len(body))
       IN IF Len(body) > 1 /\ AllDigits(intd) /\ AllDigits(fracd)
          THEN [nan |-> FALSE, neg |-> neg, int |-> DigitsToNat(intd),
                frac |-> FracDigits(fracd)]
          ELSE NaN
     ELSE NaN

(***************************************************************************)
(* IEEE-754 binary64: a Number has Precision significant bits, so a        *)
(* decimal is rounded to the nearest representable value (ties to even).   *)
(***************************************************************************)
Precision == 53

\* 0.ds / 2^m for m in 0..4, by long division.  The remainder carried into
\* a digit is the number read so far modulo 2^m, which the last four digits
\* decide (10^4 is a multiple of 2^m).
Shift(ds, m) ==
  LET D(i) == IF i >= 1 /\ i <= Len(ds) THEN ds[i] ELSE 0
      R(i) == (D(i) + 10 * D(i - 1) + 100 * D(i - 2) + 1000 * D(i - 3)) % (2 ^ m)
  IN StripZeros(<<>> \o [i \in 1..(Len(ds) + m) |->
                            (10 * R(i - 1) + D(i)) \div (2 ^ m)])

\* The digits after the point of 2^(-k), k >= 1.
RECURSIVE NegPow2(_)
NegPow2(k) ==
  IF k <= 4 THEN Shift(<<5>>, k - 1) ELSE Shift(NegPow2(k - 4), 4)

\* floor(log2(n)), n >= 1.
RECURSIVE Log2Floor(_)
Log2Floor(n) == IF n < 2 THEN 0 ELSE 1 + Log2Floor(n \div 2)

\* Half the distance between neighbouring Numbers in [2^e, 2^(e+1)) is
\* 2^(e - Precision): its digits for e = -1, 0, 1, 2, the exponents of the
\* numbers the model meets.
HalfUlpDigits ==
  <<NegPow2(Precision + 1), NegPow2(Precision), NegPow2(Precision - 1),
    NegPow2(Precision - 2)>>

HalfUlp(e) == HalfUlpDigits[e + 2]

\* 0.a <= 0.b
FracLeq(a, b) ==
  LET n    == IF Len(a) > Len(b) THEN Len(a) ELSE Len(b)
      A(i) == IF i <= Len(a) THEN a[i] ELSE 0
      B(i) == IF i <= Len(b) THEN b[i] ELSE 0
  IN \A i \in 1..n : A(i) > B(i) => \E j \in 1..(i - 1) : A(j) < B(j)

\* 1 - 0.ds, for ds without trailing zeros and not empty.
Complement(ds) ==
  <<>> \o [i \in 1..Len(ds) |-> IF i = Len(ds) THEN 10 - ds[i] ELSE 9 - ds[i]]

\* The Number nearest to an exact decimal.  Only whether the result is an
\* integer, and which, is kept exact; a result that is no integer keeps the
\* decimal's own digits.
RoundToDouble(x) ==
  IF x.nan \/ x.frac = <<>> THEN x
  ELSE LET half == HalfUlp(IF x.int = 0 THEN -1 ELSE Log2Floor(x.int))
       IN IF x.int >= 1 /\ FracLeq(x.frac, half)
          THEN [x EXCEPT !.frac = <<>>]
          ELSE IF FracLeq(Complement(x.frac), half)
          THEN [x EXCEPT !.int = x.int + 1, !.frac = <<>>]
          ELSE x

\* +s and Number(s) for a string s.
ToNumber(s) == RoundToDouble(ExactDecimal(s))

\* Number.isNaN(v) does not convert v: it is false of every string.
NumberIsNaN(s) == FALSE

\* Number.isInteger(x)
NumberIsInteger(x) == ~x.nan /\ x.frac = <<>>

\* x < 1 (false of NaN, true of -0)
LessThanOne(x) == ~x.nan /\ (x.neg \/ x.int = 0)


\* String(n) for a natural number n: its decimal digits.
RECURSIVE NatToString(_)
NatToString(n) ==
  IF n < 10 THEN <<DigitChars[n + 1]>>
  ELSE NatToString(n \div 10) \o <<DigitChars[(n % 10) + 1]>>

(***************************************************************************)
(* The store: the entries table and the sequence behind "entryId".         *)
(***************************************************************************)
VARIABLES
  rows,      \* the entries table: a set of rows
  nextId,    \* the next value of the entryId sequence
  http,      \* the request being answered and its response, or Idle
  observed   \* per entryId, what the responses so far told the client

serverVars == <<rows, nextId, http, observed>>

\* The state of the client's EntryForm component.
VARIABLES
  routeId,        \* useParams().entryId
  entry,          \* useState<Entry>()
  photoUrl,       \* useState<string>()
  isLoading,      \* useState(false)
  error,          \* useState<unknown>(): TRUE when set
  isDeleting,     \* useState(false): the confirmation modal is open
  effectPending,  \* the first render is done, its effect has not run yet
  location,       \* "form", or "list" after navigate('/')
  fetches,        \* every fetch issued so far, each pending or settled
  rejections,     \* messages of the errors thrown out of the async handlers
  lastEvent       \* the handler or continuation that ran last

formVars == <<routeId, entry, photoUrl, isLoading, error, isDeleting,
              effectPending, location, fetches, rejections, lastEvent>>

vars == <<rows, nextId, http, observed, routeId, entry, photoUrl, isLoading,
          error, isDeleting, effectPending, location, fetches, rejections,
          lastEvent>>

Fields == {"title", "notes", "photoUrl"}

Row(id, t, n, p) == [entryId |-> id, title |-> t, notes |-> n, photoUrl |-> p]

Ids(table) == {r.entryId : r \in table}

\* select * from entries
SelectAll(table) == table

\* select * from entries where "entryId" = $1
SelectWhereIdAny(table, id) == table
SelectWhereId(table, id) == {r \in table : r.entryId = id}

\* The values bound to $1, $2, $3 of the insert, in order.
InsertValuesSwapped(body) == <<body.notes, body.title, body.photoUrl>>
InsertValues(body) == <<body.title, body.notes, body.photoUrl>>

\* The store generates "entryId": each insert takes the sequence's next value,
\* and a value once taken is never handed out again.
NextVal(seq) == seq + 1

\* insert into entries ("title", "notes", "photoUrl") values ($1, $2, $3)
\* returning *: the store takes entryId from its sequence.
InsertReturning(table, seq, vals) ==
  LET row == Row(seq, vals[1], vals[2], vals[3])
  IN [table |-> table \cup {row}, seq |-> NextVal(seq), returning |-> {row}]

\* update entries set "title" = $1, "notes" = $2, "photoUrl" = $3
\* where "entryId" = $4 returning *
UpdateKeepingPhoto(table, t, n, p, id) ==
  LET hit == {r \in table : r.entryId = id}
      new == {Row(r.entryId, t, n, r.photoUrl) : r \in hit}
  IN [table |-> (table \ hit) \cup new, returning |-> new]
UpdateOrInsert(table, t, n, p, id) ==
  LET hit == {r \in table : r.entryId = id}
      new == {Row(id, t, n, p)}
  IN [table |-> (table \ hit) \cup new, returning |-> {r \in new : hit # {}}]
UpdateReturning(table, t, n, p, id) ==
  LET hit == {r \in table : r.entryId = id}
      new == {Row(r.entryId, t, n, p) : r \in hit}
  IN [table |-> (table \ hit) \cup new, returning |-> new]

\* delete from entries where "entryId" = $1 returning *
DeleteKeepingRow(table, id) ==
  [table |-> table, returning |-> {r \in table : r.entryId = id}]
DeleteReturning(table, id) ==
  LET hit == {r \in table : r.entryId = id}
  IN [table |-> table \ hit, returning |-> hit]

\* The store reading a text parameter as an integer: an optional sign and
\* digits, nothing else.
IntegerInput(s) ==
  LET body == IF s # <<>> /\ s[1] \in {"+", "-"} THEN Tail(s) ELSE s
  IN IF body # <<>> /\ AllDigits(body)
     THEN [ok |-> TRUE,
           value |-> IF s[1] = "-" THEN 0 - DigitsToNat(body) ELSE DigitsToNat(body)]
     ELSE [ok |-> FALSE, value |-> 0]

(***************************************************************************)
(* Errors and the error middleware.                                        *)
(***************************************************************************)
ClientError(status, message) ==
  [kind |-> "ClientError", status |-> status, message |-> message]

StoreError == [kind |-> "Error", status |-> 0, message |-> "store error"]

\* A ClientError carries its status; anything else is a generic 500.
ErrorMiddleware(err) ==
  IF err.kind = "ClientError"
  THEN [status |-> err.status, body |-> [error |-> err.message]]
  ELSE [status |-> 500, body |-> [error |-> "an unexpected error occurred"]]

Json(status, body) == [status |-> status, body |-> body]

(***************************************************************************)
(* The handlers' checks.                                                   *)
(***************************************************************************)
\* Number.isNaN(entryId) || !Number.isInteger(+entryId) || Number(entryId) < 1
InvalidEntryId(entryId) ==
  \/ NumberIsNaN(entryId)
  \/ ~NumberIsInteger(ToNumber(entryId))
  \/ LessThanOne(ToNumber(entryId))

\* !title || !notes || !photoUrl
MissingFieldNoPhoto(body) == Falsy(body.title) \/ Falsy(body.notes)
MissingField(body) ==
  Falsy(body.title) \/ Falsy(body.notes) \/ Falsy(body.photoUrl)

(***************************************************************************)
(* Requests, responses and what the client has been told.                  *)
(***************************************************************************)
NoBody == [title |-> Undefined, notes |-> Undefined, photoUrl |-> Undefined]

NoEntry == Row(0, Undefined, Undefined, Undefined)

Idle == [method |-> "none", entryId |-> <<>>, body |-> NoBody,
         res |-> Json(0, NoEntry), queries |-> 0]

Exchange(method, entryId, body, res, queries) ==
  [method |-> method, entryId |-> entryId, body |-> body,
   res |-> res, queries |-> queries]

Nothing == [how |-> "none", entry |-> NoEntry]

Note(id, how, e) ==
  IF id \in DOMAIN observed
  THEN observed' = [observed EXCEPT ![id] = [how |-> how, entry |-> e]]
  ELSE UNCHANGED observed


\* const [entry] = result.rows
First(result) == CHOOSE r \in result : TRUE

(***************************************************************************)
(* The five handlers.  Each answers one request: http holds the request    *)
(* and the response, queries the number of db.query calls it made.         *)
(***************************************************************************)
\* GET /api/entries
ListEntries ==
  /\ http = Idle
  /\ http' = Exchange("LIST", <<>>, NoBody,
                      Json(200, [entries |-> SelectAll(rows)]), 1)
  /\ UNCHANGED <<rows, nextId, observed>>
  /\ UNCHANGED formVars

\* GET /api/entries/:entryId
GetEntry(entryId) ==
  /\ http = Idle
  /\ IF InvalidEntryId(entryId)
     THEN http' = Exchange("GET", entryId, NoBody,
                    ErrorMiddleware(ClientError(400, "Invalid entryId.")), 0)
     ELSE LET result == SelectWhereId(rows, ToNumber(entryId).int)
          IN http' = Exchange("GET", entryId, NoBody,
                       IF result = {}
                       THEN ErrorMiddleware(ClientError(404, "entryId does not exist."))
                       ELSE Json(200, First(result)),
                       1)
  /\ UNCHANGED <<rows, nextId, observed>>
  /\ UNCHANGED formVars

\* POST /api/entries
CreateEntry(body, cap) ==
  /\ http = Idle
  /\ IF MissingField(body)
     THEN /\ http' = Exchange("POST", <<>>, body,
                       ErrorMiddleware(ClientError(400, "title, notes and photoUrl is required.")),
                       0)
          /\ UNCHANGED <<rows, nextId, observed>>
     ELSE /\ nextId <= cap
          /\ LET done == InsertReturning(rows, nextId, InsertValues(body))
             IN /\ rows' = done.table
                /\ nextId' = done.seq
                /\ IF done.returning = {}
                   THEN /\ http' = Exchange("POST", <<>>, body,
                                     ErrorMiddleware(ClientError(404, "Invalid entry")), 1)
                        /\ UNCHANGED observed
                   ELSE /\ http' = Exchange("POST", <<>>, body,
                                     Json(201, First(done.returning)), 1)
                        /\ Note(First(done.returning).entryId, "created",
                                First(done.returning))
  /\ UNCHANGED formVars

\* PUT /api/entries/:entryId
UpdateEntry(entryId, body) ==
  /\ http = Idle
  /\ IF InvalidEntryId(entryId)
     THEN /\ http' = Exchange("PUT", entryId, body,
                       ErrorMiddleware(ClientError(400, "Invalid entryId.")), 0)
          /\ UNCHANGED <<rows, observed>>
     ELSE IF MissingField(body)
     THEN /\ http' = Exchange("PUT", entryId, body,
                       ErrorMiddleware(ClientError(400, "title, notes and photoUrl is required.")),
                       0)
          /\ UNCHANGED <<rows, observed>>
     ELSE LET id   == ToNumber(entryId).int
              done == UpdateReturning(rows, body.title, body.notes, body.photoUrl, id)
          IN /\ rows' = done.table
             /\ IF done.returning = {}
                THEN /\ http' = Exchange("PUT", entryId, body,
                                  ErrorMiddleware(ClientError(404, "invalid entry.")), 1)
                     /\ UNCHANGED observed
                ELSE /\ http' = Exchange("PUT", entryId, body,
                                  Json(201, First(done.returning)), 1)
                     /\ Note(id, "updated",
                             Row(id, body.title, body.notes, body.photoUrl))
  /\ UNCHANGED nextId
  /\ UNCHANGED formVars

\* DELETE /api/entries/:entryId.  The parameter is the path value as it
\* came, not Number(entryId): the store reads the text as an integer.
DeleteEntry(entryId) ==
  /\ http = Idle
  /\ IF InvalidEntryId(entryId)
     THEN /\ http' = Exchange("DELETE", entryId, NoBody,
                       ErrorMiddleware(ClientError(400, "Invalid entryId.")), 0)
          /\ UNCHANGED <<rows, observed>>
     ELSE IF ~IntegerInput(entryId).ok
     THEN /\ http' = Exchange("DELETE", entryId, NoBody,
                       ErrorMiddleware(StoreError), 1)
          /\ UNCHANGED <<rows, observed>>
     ELSE LET done == DeleteReturning(rows, IntegerInput(entryId).value)
          IN /\ rows' = done.table
             /\ IF done.returning = {}
                THEN /\ http' = Exchange("DELETE", entryId, NoBody,
                                  ErrorMiddleware(ClientError(404, "entryId does not exists.")),
                                  1)
                     /\ UNCHANGED observed
                ELSE /\ http' = Exchange("DELETE", entryId, NoBody,
                                  Json(200, First(done.returning)), 1)
                     /\ Note(First(done.returning).entryId, "deleted", NoEntry)
  /\ UNCHANGED nextId
  /\ UNCHANGED formVars

\* The client takes the response; the next request may be sent.
Receive ==
  /\ http # Idle
  /\ http' = Idle
  /\ UNCHANGED <<rows, nextId, observed>>
  /\ UNCHANGED formVars

(***************************************************************************)
(* The requests sent to the server.                                        *)
(***************************************************************************)
Texts == {"A", "B"}

\* Every body whose fields are absent, empty or the text "A".
FieldValues == {Undefined, "", "A"}

AllBodies == [title : FieldValues, notes : FieldValues, photoUrl : FieldValues]

ValidBodies == [title : Texts, notes : Texts, photoUrl : Texts]

Zeros(n) == <<>> \o [i \in 1..n |-> "0"]

Nines(n) == <<>> \o [i \in 1..n |-> "9"]

\* "1", "2", ... up to one past the last entryId the sequence hands out.
Numerals(cap) == {NatToString(n) : n \in 1..(cap + 1)}

\* Path values that are no positive integer, in every way the handlers'
\* check tells apart, and path values written otherwise than as a numeral.
OddPaths ==
  { <<"a">>, <<"-">>, <<".">>, <<"0">>, <<"-", "0">>, <<"-", "1">>,
    <<"1", ".", "5">>, <<".", "5">>, <<"1", "a">>,
    <<"1", ".", "0">>, <<"2", ".">>, <<"+", "1">>, <<"0", "1">>,
    <<"1", ".">> \o Zeros(15) \o <<"1">>,
    <<"1", ".">> \o Zeros(15) \o <<"2">>,
    <<"0", ".">> \o Nines(17) }

(***************************************************************************)
(* The client's EntryForm component.                                       *)
(***************************************************************************)
\* A route without the parameter.
NoParam == <<"<undefined>">>

New == <<"n", "e", "w">>

\* entry before any load: undefined.
UndefinedEntry == [undefined |-> TRUE]

\* A response body that is JSON null.
Null == [null |-> TRUE]

\* const isEditing = entryId && entryId !== 'new'
IsEditing == routeId # NoParam /\ routeId # <<>> /\ routeId # New

\* entry?.entryId is truthy
HasEntryId(e) == "entryId" \in DOMAIN e /\ e.entryId # 0

\* String(x) for a Number x.
NumberToString(x) ==
  IF x.nan THEN <<"N", "a", "N">>
  ELSE (IF x.neg /\ (x.int # 0 \/ x.frac # <<>>) THEN <<"-">> ELSE <<>>)
       \o NatToString(x.int)
       \o (IF x.frac = <<>> THEN <<>>
           ELSE <<".">> \o [i \in 1..Len(x.frac) |-> DigitChars[x.frac[i] + 1]])

\* { ...a, ...b }: spreading undefined or null adds nothing.
Spread(a, b) ==
  LET A == IF a \in {UndefinedEntry, Null} THEN <<>> ELSE a
  IN [f \in DOMAIN A \cup DOMAIN b |-> IF f \in DOMAIN b THEN b[f] ELSE A[f]]

Fetch(method, target, body, by) ==
  [method |-> method, target |-> target, body |-> body, by |-> by,
   state |-> "pending"]

\* The form is what is rendered: neither "Loading..." nor the error text.
FormShown == location = "form" /\ ~isLoading /\ ~error

Mounted == location = "form"

\* What a fetch can come to: a success response with a body, a response
\* that is not ok, or no response at all.
LoadedEntries ==
  { Row(1, "A", "B", "A"),
    [title |-> "A", notes |-> "B", photoUrl |-> "A"],
    Null }

Outcomes ==
  {[kind |-> "ok", data |-> d] : d \in LoadedEntries}
    \cup {[kind |-> "badJson", data |-> Null],
          [kind |-> "notOk", data |-> Null],
          [kind |-> "failed", data |-> Null]}

\* The fetch's promise settles: state keeps how.
Settle(i, out) == fetches' = [fetches EXCEPT ![i].state = out.kind]

\* useEffect(() => { ... if (isEditing) load(+entryId) }, [entryId]): load
\* up to its first await.
RunEffect ==
  /\ Mounted /\ effectPending
  /\ effectPending' = FALSE
  /\ IF IsEditing
     THEN /\ isLoading' = TRUE
          /\ fetches' = Append(fetches,
               Fetch("GET", NumberToString(ToNumber(routeId)), NoBody, "load"))
     ELSE UNCHANGED <<isLoading, fetches>>
  /\ UNCHANGED serverVars
  /\ lastEvent' = "effect"
  /\ UNCHANGED <<routeId, entry, photoUrl, error, isDeleting, location, rejections>>

\* load after its await: the rest of try, catch and finally.  A component
\* that is no longer mounted ignores the state updates.
LoadSettles(i, out) ==
  /\ i \in 1..Len(fetches)
  /\ fetches[i].by = "load" /\ fetches[i].state = "pending"
  /\ Settle(i, out)
  /\ IF ~Mounted THEN UNCHANGED <<entry, photoUrl, error, isLoading>>
     ELSE /\ isLoading' = FALSE
          /\ IF out.kind = "ok" /\ out.data # Null
             THEN /\ entry' = out.data
                  /\ photoUrl' = IF "photoUrl" \in DOMAIN out.data
                                 THEN out.data.photoUrl ELSE Undefined
                  /\ UNCHANGED error
             ELSE IF out.kind = "ok"
             THEN \* setEntry(null), then entry.photoUrl throws
                  /\ entry' = Null
                  /\ error' = TRUE
                  /\ UNCHANGED photoUrl
             ELSE /\ error' = TRUE
                  /\ UNCHANGED <<entry, photoUrl>>
  /\ UNCHANGED serverVars
  /\ lastEvent' = "loaded"
  /\ UNCHANGED <<routeId, isDeleting, effectPending, location, rejections>>

\* handleSubmit with the form's field values: updateEntry or addEntry up to
\* its await, then navigate('/').
HandleSubmitWaiting(form) ==
  /\ FormShown /\ ~effectPending
  /\ Len(fetches) < MaxFetches
  /\ fetches' = Append(fetches,
       IF IsEditing
       THEN Fetch("PUT", routeId, Spread(entry, form), "updateEntry")
       ELSE Fetch("POST", <<>>, form, "addEntry"))
  /\ UNCHANGED serverVars
  /\ lastEvent' = "submit"
  /\ UNCHANGED <<routeId, entry, photoUrl, isLoading, error, isDeleting,
                 effectPending, location, rejections>>
HandleSubmit(form) ==
  /\ FormShown /\ ~effectPending
  /\ Len(fetches) < MaxFetches
  /\ fetches' = Append(fetches,
       IF IsEditing
       THEN Fetch("PUT", routeId, Spread(entry, form), "updateEntry")
       ELSE Fetch("POST", <<>>, form, "addEntry"))
  /\ location' = "list"
  /\ UNCHANGED serverVars
  /\ lastEvent' = "submit"
  /\ UNCHANGED <<routeId, entry, photoUrl, isLoading, error, isDeleting,
                 effectPending, rejections>>

\* updateEntry and addEntry after the await: a response that is not ok, or
\* none, ends in an error nobody catches.
SaveSettles(i, out) ==
  /\ i \in 1..Len(fetches)
  /\ fetches[i].by \in {"updateEntry", "addEntry"} /\ fetches[i].state = "pending"
  /\ Settle(i, out)
  /\ rejections' = IF out.kind \in {"notOk", "failed"}
                   THEN rejections \cup {"Failed to add entry. Please try again."}
                   ELSE rejections
  /\ UNCHANGED serverVars
  /\ lastEvent' = "saved"
  /\ UNCHANGED <<routeId, entry, photoUrl, isLoading, error, isDeleting,
                 effectPending, location>>

\* onClick of "Delete Entry"
ClickDeleteEntryDirect ==
  /\ FormShown /\ ~effectPending /\ IsEditing
  /\ Len(fetches) < MaxFetches
  /\ fetches' = Append(fetches, Fetch("DELETE", routeId, NoBody, "handleDelete"))
  /\ UNCHANGED serverVars
  /\ lastEvent' = "Delete Entry"
  /\ UNCHANGED <<routeId, entry, photoUrl, isLoading, error, isDeleting,
                 effectPending, location, rejections>>
ClickDeleteEntry ==
  /\ FormShown /\ ~effectPending /\ IsEditing
  /\ isDeleting' = TRUE
  /\ UNCHANGED serverVars
  /\ lastEvent' = "Delete Entry"
  /\ UNCHANGED <<routeId, entry, photoUrl, isLoading, error, effectPending,
                 location, fetches, rejections>>

\* onClick of "Cancel"
ClickCancel ==
  /\ FormShown /\ ~effectPending /\ isDeleting
  /\ isDeleting' = FALSE
  /\ UNCHANGED serverVars
  /\ lastEvent' = "Cancel"
  /\ UNCHANGED <<routeId, entry, photoUrl, isLoading, error, effectPending,
                 location, fetches, rejections>>

\* onClick of "Confirm": handleDelete up to its await.
ClickConfirm ==
  /\ FormShown /\ ~effectPending /\ isDeleting
  /\ IF ~HasEntryId(entry)
     THEN /\ rejections' = rejections \cup {"Should never happen"}
          /\ UNCHANGED fetches
     ELSE /\ Len(fetches) < MaxFetches
          /\ fetches' = Append(fetches,
               Fetch("DELETE", NatToString(entry.entryId), NoBody, "handleDelete"))
          /\ UNCHANGED rejections
  /\ UNCHANGED serverVars
  /\ lastEvent' = "Confirm"
  /\ UNCHANGED <<routeId, entry, photoUrl, isLoading, error, isDeleting,
                 effectPending, location>>

\* handleDelete after the await.
DeleteSettles(i, out) ==
  /\ i \in 1..Len(fetches)
  /\ fetches[i].by = "handleDelete" /\ fetches[i].state = "pending"
  /\ Settle(i, out)
  /\ IF out.kind \in {"notOk", "failed"}
     THEN /\ rejections' = rejections \cup
                {"Failed to delete an entry. entryId may not exist."}
          /\ UNCHANGED location
     ELSE /\ location' = "list"
          /\ UNCHANGED rejections
  /\ UNCHANGED serverVars
  /\ lastEvent' = "deleted"
  /\ UNCHANGED <<routeId, entry, photoUrl, isLoading, error, isDeleting,
                 effectPending>>

\* onChange of the Photo URL input
ChangePhotoUrl(value) ==
  /\ FormShown /\ ~effectPending
  /\ photoUrl' = value
  /\ UNCHANGED serverVars
  /\ lastEvent' = "change"
  /\ UNCHANGED <<routeId, entry, isLoading, error, isDeleting, effectPending,
                 location, fetches, rejections>>


(***************************************************************************)
(* Specifications.                                                         *)
(***************************************************************************)
ServerInit ==
  /\ rows = {}
  /\ nextId = 1
  /\ http = Idle
  /\ observed = [id \in 1..MaxId |-> Nothing]

\* EntryForm as first rendered, for each value of the route's parameter.
RouteParams == {NoParam, New, <<"1">>, <<"a">>}

FormInit ==
  /\ routeId \in RouteParams
  /\ entry = UndefinedEntry
  /\ photoUrl = Undefined
  /\ isLoading = FALSE
  /\ error = FALSE
  /\ isDeleting = FALSE
  /\ effectPending = TRUE
  /\ location = "form"
  /\ fetches = <<>>
  /\ rejections = {}
  /\ lastEvent = "render"

\* No form is open.
FormClosed ==
  /\ routeId = NoParam
  /\ entry = UndefinedEntry
  /\ photoUrl = Undefined
  /\ isLoading = FALSE
  /\ error = FALSE
  /\ isDeleting = FALSE
  /\ effectPending = FALSE
  /\ location = "list"
  /\ fetches = <<>>
  /\ rejections = {}
  /\ lastEvent = "render"

\* The server under requests with well-formed bodies and plain entryIds.
Paths == Numerals(MaxId) \cup {<<"0">>, <<"a">>}

Bodies == ValidBodies \cup {NoBody}

Init == ServerInit /\ FormClosed

Next ==
  \/ ListEntries
  \/ \E entryId \in Paths : GetEntry(entryId)
  \/ \E body \in Bodies : CreateEntry(body, MaxId)
  \/ \E entryId \in Paths, body \in Bodies : UpdateEntry(entryId, body)
  \/ \E entryId \in Paths : DeleteEntry(entryId)
  \/ Receive

Spec == Init /\ [][Next]_vars

\* The server under every path value and every body of the model.
PathsWide == Numerals(MaxIdWide) \cup OddPaths

NextWide ==
  \/ ListEntries
  \/ \E entryId \in PathsWide : GetEntry(entryId)
  \/ \E body \in AllBodies : CreateEntry(body, MaxIdWide)
  \/ \E entryId \in PathsWide, body \in AllBodies : UpdateEntry(entryId, body)
  \/ \E entryId \in PathsWide : DeleteEntry(entryId)
  \/ Receive

SpecWide == Init /\ [][NextWide]_vars

\* One EntryForm from its first render on, against any server.
InitForm == ServerInit /\ FormInit

NextForm ==
  \/ RunEffect
  \/ \E i \in 1..MaxFetches, out \in Outcomes : LoadSettles(i, out)
  \/ \E form \in ValidBodies : HandleSubmit(form)
  \/ \E i \in 1..MaxFetches, out \in Outcomes : SaveSettles(i, out)
  \/ ClickDeleteEntry
  \/ ClickCancel
  \/ ClickConfirm
  \/ \E i \in 1..MaxFetches, out \in Outcomes : DeleteSettles(i, out)
  \/ \E value \in Texts : ChangePhotoUrl(value)

SpecForm == InitForm /\ [][NextForm]_vars

(***************************************************************************)
(* Properties.                                                             *)
(***************************************************************************)
\* The handler that answers in this step (http is Idle before every one).
Answers(method) == http = Idle /\ http'.method = method

\* A body field that is missing or empty.
Blank(v) == v \in {Undefined, ""}

AllPresent(body) == \A f \in Fields : ~Blank(body[f])

\* The path value is a decimal numeral of a positive integer: digits only.
IsNumeral(s) == s # <<>> /\ AllDigits(s) /\ DigitsToNat(s) >= 1

\* The path value denotes a positive integer: read as a decimal number,
\* exactly, it is a whole number that is at least 1 ("1", "+1", "1.0").
DenotesPositiveInteger(s) ==
  LET x == ExactDecimal(s)
  IN ~x.nan /\ ~x.neg /\ x.frac = <<>> /\ x.int >= 1

UniqueIds == \A r1, r2 \in rows : r1.entryId = r2.entryId => r1 = r2

\* C1: get, update and delete answer 400 and query nothing whenever the
\* entryId path value does not denote a positive integer, whatever the body.
C1_InvalidEntryIdRejected ==
  (http.method \in {"GET", "PUT", "DELETE"} /\ ~DenotesPositiveInteger(http.entryId))
    => (http.res.status = 400 /\ http.queries = 0)

\* C2: a create or update with a missing or empty title, notes or photoUrl
\* is answered 400, and the table and its sequence stay as they were.
C2_MissingFieldNoWrite ==
  [][((Answers("POST") \/ Answers("PUT")) /\ ~AllPresent(http'.body))
       => (http'.res.status = 400 /\ rows' = rows /\ nextId' = nextId)]_vars

\* An update of an existing entry with an empty field was refused.
C2_Witness ==
  /\ http.method = "PUT" /\ http.entryId = <<"1">>
  /\ 1 \in Ids(rows)
  /\ http.body = [title |-> "A", notes |-> "A", photoUrl |-> ""]
  /\ http.res.status = 400

\* C3: a create with all three fields present is answered 201 with an entry
\* that has exactly the submitted title, notes and photoUrl and an entryId
\* taken from the store's sequence that no row had before; the row is in
\* the table afterwards, and no two rows ever share an entryId.
C3_CreateReturnsNewEntry ==
  [][/\ (Answers("POST") /\ AllPresent(http'.body))
          => /\ http'.res.status = 201
             /\ http'.res.body = Row(nextId, http'.body.title, http'.body.notes,
                                     http'.body.photoUrl)
             /\ http'.res.body.entryId \notin Ids(rows)
             /\ rows' = rows \cup {http'.res.body}
     /\ UniqueIds']_vars

\* A second entry was created while the first was there, with other values.
C3_Witness ==
  /\ http.method = "POST" /\ http.res.status = 201
  /\ http.res.body = Row(2, "B", "A", "B")
  /\ Row(1, "A", "A", "A") \in rows

\* C4: an update of an existing entryId with all three fields present is
\* answered 201 with the entry made of that entryId and the submitted
\* fields, and a get of the entryId, as long as it was not updated or
\* deleted since, is answered 200 with exactly that entry.
C4_UpdateReplacesAllFields ==
  [][/\ \A id \in Ids(rows) :
          (Answers("PUT") /\ http'.entryId = NatToString(id) /\ AllPresent(http'.body))
            => /\ http'.res.status = 201
               /\ http'.res.body = Row(id, http'.body.title, http'.body.notes,
                                       http'.body.photoUrl)
     /\ \A id \in DOMAIN observed :
          (Answers("GET") /\ http'.entryId = NatToString(id)
             /\ observed[id].how = "updated")
            => /\ http'.res.status = 200
               /\ http'.res.body = observed[id].entry]_vars

\* Entry 1 was updated and then fetched: every field has the new value.
C4_Witness ==
  /\ http.method = "GET" /\ http.entryId = <<"1">>
  /\ observed[1].how = "updated"
  /\ http.res.status = 200
  /\ http.res.body = Row(1, "B", "B", "B")

\* C5: a delete answered 200 carries the row that had the entryId, which is
\* gone from the table, and a get of an entryId whose delete succeeded is
\* answered 404.
C5_DeletedThenNotFound ==
  [][/\ (Answers("DELETE") /\ http'.res.status = 200)
          => /\ http'.res.body \in rows
             /\ http'.entryId = NatToString(http'.res.body.entryId)
             /\ rows' = rows \ {http'.res.body}
     /\ \A id \in DOMAIN observed :
          (Answers("GET") /\ http'.entryId = NatToString(id)
             /\ observed[id].how = "deleted")
            => http'.res.status = 404]_vars

\* Entry 1 was deleted and then asked for.
C5_Witness ==
  /\ http.method = "GET" /\ http.entryId = <<"1">>
  /\ observed[1].how = "deleted"
  /\ http.res.status = 404

\* C6: a get of an entryId that a create returned, not updated or deleted
\* since, is answered 200 with exactly the entry the create returned.
C6_CreateGetRoundTrip ==
  \A id \in DOMAIN observed :
    (http.method = "GET" /\ http.entryId = NatToString(id)
       /\ observed[id].how = "created")
      => (http.res.status = 200 /\ http.res.body = observed[id].entry)

\* Entry 1 is fetched as created after entry 2 was created and updated.
C6_Witness ==
  /\ http.method = "GET" /\ http.entryId = <<"1">>
  /\ observed[1].how = "created"
  /\ observed[2].how = "updated"
  /\ http.res.status = 200

Issued == {fetches'[i] : i \in (Len(fetches) + 1)..Len(fetches')}

\* C8: a DELETE is sent only by a click on "Confirm" in the open modal, and
\* the modal opens only by a click on "Delete Entry"; a click on "Cancel"
\* sends nothing, closes the modal and leaves entry, error and isLoading.
C8_DeleteNeedsConfirm ==
  [][/\ (\E f \in Issued : f.method = "DELETE")
          => (lastEvent' = "Confirm" /\ isDeleting /\ FormShown)
     /\ (isDeleting' /\ ~isDeleting) => lastEvent' = "Delete Entry"
     /\ lastEvent' = "Cancel"
          => /\ isDeleting /\ ~isDeleting'
             /\ fetches' = fetches
             /\ entry' = entry /\ error' = error /\ isLoading' = isLoading
             /\ location' = location]_vars

\* "Delete Entry", then "Cancel", on a loaded entry: nothing was sent.
C8_Witness ==
  /\ lastEvent = "Cancel"
  /\ HasEntryId(entry)
  /\ ~isDeleting
  /\ \A i \in 1..Len(fetches) : fetches[i].method # "DELETE"

C10_ConfirmHasEntryId ==
  /\ (location = "form" /\ isDeleting /\ ~isLoading /\ ~error) => HasEntryId(entry)
  /\ "Should never happen" \notin rejections

=============================================================================
